---- MODULE Spec2Model ----
(***************************************************************************)
(* Model of ftl's Foldable concept (include/ftl/concepts/foldable.h) and   *)
(* of the std::forward_list instances of Monoid, Monad and Foldable that   *)
(* the same file carries (ftl/forward_list.h).                             *)
(*                                                                         *)
(* A std::forward_list<T> is a sequence; an iterator is an index into it,  *)
(* 0 standing for before_begin().  A function object passed to the library *)
(* is a value naming the function; call1/call2 are its operator().         *)
(***************************************************************************)
EXTENDS Integers, Sequences, FiniteSets, TLC

\* Longest sample list drawn for the checks.
MaxLen == 2

\* Element values of the sample lists.
Elem == {1, 2}

\* The list of the documentation's foldl/foldr examples.
DocList == <<4, 8, 5>>

\* The zero of the documentation's foldl/foldr examples.
DocZero == 3

BoundedLists == UNION {[1..k -> Elem] : k \in 0..MaxLen}

Lists == BoundedLists \cup {DocList}

Zeros == {0, DocZero}

\* Value categories of an argument expression, as overload resolution sees them.
Categories == {"const", "rvalue"}

------------------------------------------------------------------------------
(* std::forward_list members used by the library *)

\* l.insert_after(pos, x): x becomes the element after pos; returns an
\* iterator to it.
insert_after(l, pos, x) ==
    [list |-> SubSeq(l, 1, pos) \o <<x>> \o SubSeq(l, pos + 1, Len(l)),
     it   |-> pos + 1]

\* l.insert_after(pos, first, last): the range goes after pos in its own
\* order; returns an iterator to the last element inserted, or pos when the
\* range is empty.
insert_after_range(l, pos, xs) ==
    [list |-> SubSeq(l, 1, pos) \o xs \o SubSeq(l, pos + 1, Len(l)),
     it   |-> pos + Len(xs)]

\* l.splice_after(pos, std::move(other)): all of other's nodes are moved
\* after pos, keeping their order.
splice_after(l, pos, other) ==
    SubSeq(l, 1, pos) \o other \o SubSeq(l, pos + 1, Len(l))

\* l.emplace_front(x)
emplace_front(l, x) == <<x>> \o l

------------------------------------------------------------------------------
(* The functions handed to the library by its callers *)

\* int -> int
UnaryFns == {"ident", "inc", "dbl"}

\* list -> list (elements of a list of lists mapped to the list monoid)
ListFns == {"id", "dup", "rev"}

\* int -> list
ExpandFns == {"pure", "evens", "iota"}

\* (int, int) -> int
BinaryFns == {"sub", "lin"}

Reverse(s) == [i \in 1..Len(s) |-> s[Len(s) + 1 - i]]

\* Mutant of pure: returns the list without the element.
pure_empty(t) == <<>>

\* monad<forward_list>::pure: a list l, then l.emplace_front(t).
pure(t) == emplace_front(<<>>, t)

\* A function object: the function's name and the values it captured.
fnobj(name) == [name |-> name, cap |-> <<>>]

\* The caller's lambda x -> g(f(x)).
composed(g, f) == [name |-> "compose", cap |-> <<g, f>>]

\* fn(x) for a unary function object.
RECURSIVE call1(_, _)
call1(fn, x) ==
    CASE fn.name = "ident"   -> x
      [] fn.name = "inc"     -> x + 1
      [] fn.name = "dbl"     -> 2 * x
      [] fn.name = "id"      -> x
      [] fn.name = "dup"     -> x \o x
      [] fn.name = "rev"     -> Reverse(x)
      [] fn.name = "pure"    -> pure(x)
      [] fn.name = "evens"   -> IF x % 2 = 0 THEN <<x>> ELSE <<>>
      [] fn.name = "iota"    -> [i \in 1..(x % 3) |-> x + i - 1]
      [] fn.name = "compose" -> call1(fn.cap[1], call1(fn.cap[2], x))

------------------------------------------------------------------------------
(* monoid<std::forward_list<Ts...>> *)

id_list == <<>>

\* Mutant of append_cc: copies l1 and inserts l2 in front of it.
append_cc_swapped(l1, l2) ==
    LET rl == l1
    IN  insert_after_range(rl, 0, l2).list

\* append(const&, const&)
append_cc(l1, l2) ==
    LET rl == l2
    IN  insert_after_range(rl, 0, l1).list

\* append(&&, const&)
append_rc(l1, l2) ==
    LET rl == l2
    IN  splice_after(rl, 0, l1)

\* Mutant of append_cr: returns the local copy it has just spliced away.
append_cr_returns_local(l1, l2) == <<>>

\* append(const&, &&)
append_cr(l1, l2) ==
    LET l == l1
    IN  splice_after(l2, 0, l)

\* append(&&, &&)
append_rr(l1, l2) == splice_after(l2, 0, l1)

\* Overload resolution of monoid<forward_list>::append on the value
\* categories of its two arguments.
append(c1, l1, c2, l2) ==
    CASE c1 = "const"  /\ c2 = "const"  -> append_cc(l1, l2)
      [] c1 = "rvalue" /\ c2 = "const"  -> append_rc(l1, l2)
      [] c1 = "const"  /\ c2 = "rvalue" -> append_cr(l1, l2)
      [] c1 = "rvalue" /\ c2 = "rvalue" -> append_rr(l1, l2)

------------------------------------------------------------------------------
(* foldable: deriving_foldl, deriving_foldMap, deriving_fold, foldr *)

\* Value category of fn(a): ftl::id hands its argument back, the other
\* functions return a temporary.
result_category(fn) == IF fn.name = "id" THEN "const" ELSE "rvalue"

\* Mutant of foldMap_lambda: append(b, fn(a)).
foldMap_lambda_swapped(fn, a, b) ==
    append("const", b, result_category(fn), call1(fn, a))

\* The closure deriving_foldMap::foldMap passes to foldl:
\*   [fn](const T& a, const M& b) { return monoid<M>::append(fn(a), b); }
foldMap_lambda(fn, a, b) ==
    append(result_category(fn), call1(fn, a), "const", b)

\* fn(a, b) for a binary function object; a closure is a record holding what
\* it captured.
call2(fn, a, b) ==
    CASE fn.name = "sub"     -> a - b
      [] fn.name = "lin"     -> 2 * a + b
      [] fn.name = "foldMap" -> foldMap_lambda(fn.cap[1], a, b)

\* The closure of foldMap, capturing fn by value.
closure(fn) == [name |-> "foldMap", cap |-> <<fn>>]

\* Mutant of foldl_loop: z = fn(e, z).
RECURSIVE foldl_loop_swapped(_, _, _, _, _)
foldl_loop_swapped(fn, z, f, i, calls) ==
    IF i > Len(f)
    THEN [ret |-> z, calls |-> calls]
    ELSE foldl_loop_swapped(fn, call2(fn, f[i], z), f, i + 1,
                            Append(calls, <<f[i], z>>))

\* The loop of deriving_foldl::foldl from position i on: z = fn(z, e) for
\* each e in traversal order.  calls lists the (z, e) pairs fn was invoked
\* on, in order of invocation.
RECURSIVE foldl_loop(_, _, _, _, _)
foldl_loop(fn, z, f, i, calls) ==
    IF i > Len(f)
    THEN [ret |-> z, calls |-> calls]
    ELSE foldl_loop(fn, call2(fn, z, f[i]), f, i + 1,
                    Append(calls, <<z, f[i]>>))

foldl(fn, z, f) == foldl_loop(fn, z, f, 1, <<>>)

\* Mutant of fwdfoldr: combines before recursing, f applied to the head
\* and z first and the result passed down the list.
RECURSIVE fwdfoldr_eager(_, _, _, _)
fwdfoldr_eager(fn, z, l, it) ==
    IF it <= Len(l)
    THEN LET x     == l[it]
             y     == call2(fn, x, z)
             inner == fwdfoldr_eager(fn, y, l, it + 1)
         IN  [ret   |-> inner.ret,
              calls |-> <<<<x, z>>>> \o inner.calls]
    ELSE [ret |-> z, calls |-> <<>>]

\* _dtl::fwdfoldr: f(x, fwdfoldr(f, z, ++it, end)) while it != end, else z.
\* The inner call is an argument of f, so it returns before f is invoked.
RECURSIVE fwdfoldr(_, _, _, _)
fwdfoldr(fn, z, l, it) ==
    IF it <= Len(l)
    THEN LET x     == l[it]
             inner == fwdfoldr(fn, z, l, it + 1)
         IN  [ret   |-> call2(fn, x, inner.ret),
              calls |-> Append(inner.calls, <<x, inner.ret>>)]
    ELSE [ret |-> z, calls |-> <<>>]

\* foldable<forward_list>::foldr
foldr(fn, z, l) == fwdfoldr(fn, z, l, 1)

\* deriving_foldMap::foldMap.  calls lists the arguments the caller's fn was
\* invoked on: the closure invokes fn once, on its first parameter.
foldMap(fn, f) ==
    LET r == foldl(closure(fn), id_list, f)
    IN  [ret   |-> r.ret,
         calls |-> [i \in 1..Len(r.calls) |-> r.calls[i][1]]]

\* deriving_fold::fold and ftl::fold: foldMap with prelude's id.
fold(f) == foldMap(fnobj("id"), f)

------------------------------------------------------------------------------
(* monad<std::forward_list<T,A>> and concatMap *)

\* std::move(e): a cast; the value read through it is e's.
move(e) == e

\* Whether result_of<F(T)> differs from T, which selects between the two
\* map overloads taking an rvalue list.
changes_type(f) == f.name \in ExpandFns

\* Mutant of map_const_loop: the iterator insert_after returns is dropped,
\* every element goes after before_begin().
RECURSIVE map_const_loop_front(_, _, _, _, _)
map_const_loop_front(f, l, i, rl, it) ==
    IF i > Len(l)
    THEN rl
    ELSE LET r == insert_after(rl, it, call1(f, l[i]))
         IN  map_const_loop_front(f, l, i + 1, r.list, it)

\* The loop of map(F&&, const forward_list<T>&) from element i on:
\*   it = rl.insert_after(it, f(e))
RECURSIVE map_const_loop(_, _, _, _, _)
map_const_loop(f, l, i, rl, it) ==
    IF i > Len(l)
    THEN rl
    ELSE LET r == insert_after(rl, it, call1(f, l[i]))
         IN  map_const_loop(f, l, i + 1, r.list, r.it)

\* The loop of map(F&&, forward_list<T>&&), U != T, from element i on:
\*   it = rl.insert_after(it, f(std::move(e)))
RECURSIVE map_move_loop(_, _, _, _, _)
map_move_loop(f, l, i, rl, it) ==
    IF i > Len(l)
    THEN rl
    ELSE LET r == insert_after(rl, it, call1(f, move(l[i])))
         IN  map_move_loop(f, l, i + 1, r.list, r.it)

\* Mutant of map_inplace_loop: the loop starts at the second element.
RECURSIVE map_inplace_loop_skip(_, _, _)
map_inplace_loop_skip(f, rl, i) ==
    IF i + 1 > Len(rl)
    THEN rl
    ELSE map_inplace_loop_skip(f, [rl EXCEPT ![i + 1] = call1(f, rl[i + 1])],
                               i + 1)

\* The loop of the no-copies map from element i on: e = f(e)
RECURSIVE map_inplace_loop(_, _, _)
map_inplace_loop(f, rl, i) ==
    IF i > Len(rl)
    THEN rl
    ELSE map_inplace_loop(f, [rl EXCEPT ![i] = call1(f, rl[i])], i + 1)

map_const(f, l) == map_const_loop(f, l, 1, <<>>, 0)

map_move(f, l) == map_move_loop(f, l, 1, <<>>, 0)

map_inplace(f, l) ==
    LET rl == move(l)
    IN  map_inplace_loop(f, rl, 1)

\* Overload resolution of monad<forward_list>::map on the value category c
\* of the list argument.
map(f, c, l) ==
    CASE c = "const"                        -> map_const(f, l)
      [] c = "rvalue" /\ changes_type(f)    -> map_move(f, l)
      [] c = "rvalue" /\ ~changes_type(f)   -> map_inplace(f, l)

\* Mutant of concatMap_loop: the iterator insert_after returns is dropped,
\* every sublist goes after before_begin().
RECURSIVE concatMap_loop_front(_, _, _, _)
concatMap_loop_front(nested, i, result, it) ==
    IF i > Len(nested)
    THEN result
    ELSE LET r == insert_after_range(result, it, nested[i])
         IN  concatMap_loop_front(nested, i + 1, r.list, it)

\* The loop of concatMap over nested from sublist i on:
\*   it = result.insert_after(it, move_iterator(el.begin()),
\*                                move_iterator(el.end()))
RECURSIVE concatMap_loop(_, _, _, _)
concatMap_loop(nested, i, result, it) ==
    IF i > Len(nested)
    THEN result
    ELSE LET r == insert_after_range(result, it, nested[i])
         IN  concatMap_loop(nested, i + 1, r.list, r.it)

\* concatMap(F&&, const forward_list&) and concatMap(F&&, forward_list&&):
\* nested is f % l, resp. f % std::move(l), the functor map of f over l.
concatMap(f, c, l) ==
    LET nested == map(f, c, l)
    IN  concatMap_loop(nested, 1, <<>>, 0)

\* monad<forward_list>::bind, both overloads.
bind(c, l, f) == concatMap(f, c, l)

------------------------------------------------------------------------------
(* What a call leaves in the lists it was given.  Each operator gives the   *)
(* set of states the argument objects can be in when the call returns.      *)

\* A list that was the source of a move construction: valid, its content
\* unspecified; implementations leave it empty.
moved_from(l) == {<<>>, l}

\* A forward_list&& parameter p after "return p": copied from before C++20,
\* moved from since.
returned_from(p) == {p} \cup moved_from(p)

\* Mutant of append_cc_sources: l1 is spliced into the copy of l2, as the
\* (&&, const&) overload does.
append_cc_sources_spliced(l1, l2) == {<<<<>>, l2>>}

\* append(const&, const&): rl copies l2, insert_after copies l1's range.
append_cc_sources(l1, l2) == {<<l1, l2>>}

\* append(&&, const&): rl copies l2, l1's nodes are spliced into rl.
append_rc_sources(l1, l2) == {<<<<>>, l2>>}

\* append(const&, &&): l copies l1, l's nodes are spliced into l2, l2 is
\* returned.
append_cr_sources(l1, l2) ==
    {<<l1, p>> : p \in returned_from(splice_after(l2, 0, l1))}

\* append(&&, &&): l1's nodes are spliced into l2, l2 is returned.
append_rr_sources(l1, l2) ==
    {<<<<>>, p>> : p \in returned_from(splice_after(l2, 0, l1))}

append_sources(c1, l1, c2, l2) ==
    CASE c1 = "const"  /\ c2 = "const"  -> append_cc_sources(l1, l2)
      [] c1 = "rvalue" /\ c2 = "const"  -> append_rc_sources(l1, l2)
      [] c1 = "const"  /\ c2 = "rvalue" -> append_cr_sources(l1, l2)
      [] c1 = "rvalue" /\ c2 = "rvalue" -> append_rr_sources(l1, l2)

\* deriving_foldl::foldl(Fn&&, U, const F&): for(auto& e : f) reads f.
foldl_sources(fn, z, f) == {f}

\* foldr: fwdfoldr walks l.cbegin() .. l.cend().
foldr_sources(fn, z, l) == {l}

\* foldMap hands its const F& to foldl; the closure takes the element by
\* const reference.
foldMap_sources(fn, f) == foldl_sources(closure(fn), id_list, f)

fold_sources(f) == foldMap_sources(fnobj("id"), f)

\* map: the const overload reads l through const auto&; the moving overload
\* hands each element to f as an rvalue (an int keeps its value); the
\* no-copies overload move-constructs rl from l.
map_sources(f, c, l) ==
    CASE c = "const"                        -> {l}
      [] c = "rvalue" /\ changes_type(f)    -> {[i \in 1..Len(l) |-> move(l[i])]}
      [] c = "rvalue" /\ ~changes_type(f)   -> moved_from(l)

\* concatMap passes l, resp. std::move(l), to map and reads nested only.
concatMap_sources(f, c, l) == map_sources(f, c, l)

bind_sources(c, l, f) == concatMap_sources(f, c, l)

------------------------------------------------------------------------------
(* One call of a library function on sample arguments.  A, B and C are the  *)
(* caller's lists as they were before the call; op names the function       *)
(* called ("none" before the call), in the other arguments it was called    *)
(* with, res what it returned, calls the invocations of the caller's        *)
(* function it made and src the caller's three lists after the call.        *)

VARIABLES A, B, C, op, in, res, calls, src

vars == <<A, B, C, op, in, res, calls, src>>

NoInput == [fn |-> "none", g |-> "none", z |-> 0, x |-> 0, n |-> 0,
            c1 |-> "const", c2 |-> "const", c3 |-> "const"]

Init ==
    /\ A \in Lists
    /\ B \in BoundedLists
    /\ C \in BoundedLists
    /\ op = "none"
    /\ in = NoInput
    /\ res = <<>>
    /\ calls = <<>>
    /\ src = <<A, B, C>>

\* The list of lists holding the first n of the sample lists.
Nested(n) == SubSeq(<<A, B, C>>, 1, n)

\* The caller's list after a call of a law's expression: an argument written
\* as a temporary is a copy the call consumes, a const argument is the
\* caller's list itself.
borrowed(c, before, after) == IF c = "const" THEN after ELSE before

Foldl ==
    /\ op = "none"
    /\ \E fn \in BinaryFns, z \in Zeros :
           LET r == foldl(fnobj(fn), z, A)
           IN  /\ op' = "foldl"
               /\ in' = [NoInput EXCEPT !.fn = fn, !.z = z]
               /\ res' = r.ret
               /\ calls' = r.calls
               /\ \E a \in foldl_sources(fnobj(fn), z, A) : src' = <<a, B, C>>
    /\ UNCHANGED <<A, B, C>>

Foldr ==
    /\ op = "none"
    /\ \E fn \in BinaryFns, z \in Zeros :
           LET r == foldr(fnobj(fn), z, A)
           IN  /\ op' = "foldr"
               /\ in' = [NoInput EXCEPT !.fn = fn, !.z = z]
               /\ res' = r.ret
               /\ calls' = r.calls
               /\ \E a \in foldr_sources(fnobj(fn), z, A) : src' = <<a, B, C>>
    /\ UNCHANGED <<A, B, C>>

FoldMap ==
    /\ op = "none"
    /\ \E fn \in ListFns, n \in 0..3 :
           LET r == foldMap(fnobj(fn), Nested(n))
           IN  /\ op' = "foldMap"
               /\ in' = [NoInput EXCEPT !.fn = fn, !.n = n]
               /\ res' = r.ret
               /\ calls' = r.calls
               /\ \E f \in foldMap_sources(fnobj(fn), Nested(n)) :
                      src' = f \o SubSeq(<<A, B, C>>, n + 1, 3)
    /\ UNCHANGED <<A, B, C>>

Fold ==
    /\ op = "none"
    /\ \E n \in 0..3 :
           LET r == fold(Nested(n))
           IN  /\ op' = "fold"
               /\ in' = [NoInput EXCEPT !.fn = "id", !.n = n]
               /\ res' = r.ret
               /\ calls' = r.calls
               /\ \E f \in fold_sources(Nested(n)) :
                      src' = f \o SubSeq(<<A, B, C>>, n + 1, 3)
    /\ UNCHANGED <<A, B, C>>

\* append(l1, l2) with each argument an lvalue or a temporary.
MonoidAppend ==
    /\ op = "none"
    /\ \E c1 \in Categories, c2 \in Categories :
           /\ op' = "append"
           /\ in' = [NoInput EXCEPT !.c1 = c1, !.c2 = c2]
           /\ res' = append(c1, A, c2, B)
           /\ \E s \in append_sources(c1, A, c2, B) : src' = <<s[1], s[2], C>>
    /\ UNCHANGED <<A, B, C, calls>>

\* append(id(), L) and append(L, id()); c2 is the category of the identity.
MonoidIdentity ==
    /\ op = "none"
    /\ \E c0 \in Categories, c1 \in Categories :
           /\ op' = "identity"
           /\ in' = [NoInput EXCEPT !.c1 = c1, !.c2 = c0]
           /\ res' = <<append(c0, id_list, c1, A), append(c1, A, c0, id_list)>>
           /\ \E s \in append_sources(c0, id_list, c1, A) :
                  LET a1 == borrowed(c1, A, s[2])
                  IN  \E t \in append_sources(c1, a1, c0, id_list) :
                          src' = <<borrowed(c1, a1, t[1]), B, C>>
    /\ UNCHANGED <<A, B, C, calls>>

\* append(append(A, B), C) and append(A, append(B, C)); the inner call's
\* result is a temporary.
MonoidAssoc ==
    /\ op = "none"
    /\ \E c1 \in Categories, c2 \in Categories, c3 \in Categories :
           /\ op' = "assoc"
           /\ in' = [NoInput EXCEPT !.c1 = c1, !.c2 = c2, !.c3 = c3]
           /\ res' = <<append("rvalue", append(c1, A, c2, B), c3, C),
                       append(c1, A, "rvalue", append(c2, B, c3, C))>>
           /\ \E s \in append_sources(c1, A, c2, B) :
                  LET a1 == borrowed(c1, A, s[1])
                      b1 == borrowed(c2, B, s[2])
                  IN  \E t \in append_sources("rvalue", append(c1, A, c2, B),
                                              c3, C) :
                      LET c1_ == borrowed(c3, C, t[2])
                      IN  \E u \in append_sources(c2, b1, c3, c1_) :
                          LET b2 == borrowed(c2, b1, u[1])
                              c2_ == borrowed(c3, c1_, u[2])
                          IN  \E v \in append_sources(c1, a1, "rvalue",
                                                      append(c2, b1, c3, c1_)) :
                                  src' = <<borrowed(c1, a1, v[1]), b2, c2_>>
    /\ UNCHANGED <<A, B, C, calls>>

Map ==
    /\ op = "none"
    /\ \E f \in UnaryFns \cup ExpandFns, c \in Categories :
           /\ op' = "map"
           /\ in' = [NoInput EXCEPT !.fn = f, !.c1 = c]
           /\ res' = map(fnobj(f), c, A)
           /\ \E a \in map_sources(fnobj(f), c, A) : src' = <<a, B, C>>
    /\ UNCHANGED <<A, B, C, calls>>

\* map(g, map(f, L)) and map(x -> g(f(x)), L).
MapCompose ==
    /\ op = "none"
    /\ \E f \in UnaryFns, g \in UnaryFns :
           /\ op' = "mapCompose"
           /\ in' = [NoInput EXCEPT !.fn = f, !.g = g]
           /\ res' = <<map(fnobj(g), "rvalue", map(fnobj(f), "const", A)),
                       map(composed(fnobj(g), fnobj(f)), "const", A)>>
           /\ \E a1 \in map_sources(fnobj(f), "const", A) :
                  \E a2 \in map_sources(composed(fnobj(g), fnobj(f)),
                                        "const", a1) :
                      src' = <<a2, B, C>>
    /\ UNCHANGED <<A, B, C, calls>>

ConcatMap ==
    /\ op = "none"
    /\ \E f \in ExpandFns, c \in Categories :
           /\ op' = "concatMap"
           /\ in' = [NoInput EXCEPT !.fn = f, !.c1 = c]
           /\ res' = concatMap(fnobj(f), c, A)
           /\ \E a \in concatMap_sources(fnobj(f), c, A) : src' = <<a, B, C>>
    /\ UNCHANGED <<A, B, C, calls>>

Bind ==
    /\ op = "none"
    /\ \E f \in ExpandFns, c \in Categories :
           /\ op' = "bind"
           /\ in' = [NoInput EXCEPT !.fn = f, !.c1 = c]
           /\ res' = bind(c, A, fnobj(f))
           /\ \E a \in bind_sources(c, A, fnobj(f)) : src' = <<a, B, C>>
    /\ UNCHANGED <<A, B, C, calls>>

\* pure(x) for an element x.
Pure ==
    /\ op = "none"
    /\ \E x \in Elem :
           /\ op' = "pure"
           /\ in' = [NoInput EXCEPT !.x = x]
           /\ res' = pure(x)
    /\ UNCHANGED <<A, B, C, calls, src>>

Next ==
    \/ Foldl
    \/ Foldr
    \/ FoldMap
    \/ Fold
    \/ MonoidAppend
    \/ MonoidIdentity
    \/ MonoidAssoc
    \/ Map
    \/ MapCompose
    \/ ConcatMap
    \/ Bind
    \/ Pure

Spec == Init /\ [][Next]_vars

------------------------------------------------------------------------------
(* What the claims compare the results with *)

Last(s) == s[Len(s)]

Front(s) == SubSeq(s, 1, Len(s) - 1)

\* s[1] \o s[2] \o ... \o s[n]
RECURSIVE Flatten(_)
Flatten(ss) == IF ss = <<>> THEN <<>> ELSE Head(ss) \o Flatten(Tail(ss))

\* fn(...fn(fn(z, l[1]), l[2])..., l[n])
RECURSIVE LeftFold(_, _, _)
LeftFold(fn, z, l) ==
    IF l = <<>> THEN z ELSE call2(fn, LeftFold(fn, z, Front(l)), Last(l))

\* fn(l[1], fn(l[2], ... fn(l[n], z)))
RECURSIVE RightFold(_, _, _)
RightFold(fn, z, l) ==
    IF l = <<>> THEN z ELSE call2(fn, Head(l), RightFold(fn, z, Tail(l)))

\* <<fn(l[1]), ..., fn(l[n])>>
Mapped(fn, l) == [i \in 1..Len(l) |-> call1(fnobj(fn), l[i])]

------------------------------------------------------------------------------
(* The claims *)

\* C1: foldMap(fn, L) returns append(fn(e1), append(fn(e2), ... append(fn(en),
\* id()))): fn is applied to each element of L exactly once, in traversal
\* order, and never to an accumulated value.
C1_FoldMapMapsEachElement ==
    op = "foldMap" =>
        /\ res = Flatten(Mapped(in.fn, Nested(in.n)))
        /\ calls = Nested(in.n)

\* C2: foldl(fn, z, L) returns fn(...fn(fn(z, e1), e2)..., en), applying
\* fn(accumulator, element) once per element in traversal order, and z when L
\* is empty; [4, 8, 5] folded with subtraction from 3 yields -14.
C2_FoldlLeftAssociative ==
    op = "foldl" =>
        /\ res = LeftFold(fnobj(in.fn), in.z, A)
        /\ Len(calls) = Len(A)
        /\ \A i \in 1..Len(A) :
               calls[i] = <<LeftFold(fnobj(in.fn), in.z, SubSeq(A, 1, i - 1)),
                            A[i]>>
        /\ (A = <<>> => res = in.z)
        /\ (A = DocList /\ in.fn = "sub" /\ in.z = DocZero => res = -14)

C2_Witness ==
    /\ op = "foldl"
    /\ A = DocList
    /\ in.fn = "sub"
    /\ in.z = DocZero
    /\ res = -14
    /\ calls = << <<3, 4>>, <<-1, 8>>, <<-9, 5>> >>

\* C3: foldr(fn, z, L) returns fn(e1, fn(e2, ... fn(en, z))), applying
\* fn(element, accumulator); the first invocation of fn is on the last
\* element and z, the recursion having reached the end of the list; z is
\* returned when L is empty; [4, 8, 5] folded with subtraction from 3
\* yields -2.
C3_FoldrRightAssociative ==
    op = "foldr" =>
        LET n == Len(A)
        IN  /\ res = RightFold(fnobj(in.fn), in.z, A)
            /\ Len(calls) = n
            /\ \A i \in 1..n :
                   calls[i] = <<A[n + 1 - i],
                                RightFold(fnobj(in.fn), in.z,
                                          SubSeq(A, n + 2 - i, n))>>
            /\ (n > 0 => calls[1] = <<A[n], in.z>>)
            /\ (n = 0 => res = in.z)
            /\ (A = DocList /\ in.fn = "sub" /\ in.z = DocZero => res = -2)

C3_Witness ==
    /\ op = "foldr"
    /\ A = DocList
    /\ in.fn = "sub"
    /\ in.z = DocZero
    /\ res = -2
    /\ calls = << <<5, 3>>, <<8, 2>>, <<4, 6>> >>

\* C4: for a list L of lists, fold(L) equals foldMap(identity, L), and that
\* value is append(e1, append(e2, ... append(en, id()))): the elements joined
\* in traversal order, id() when L is empty.
C4_FoldIsFoldMapIdentity ==
    op = "fold" =>
        /\ res = foldMap(fnobj("id"), Nested(in.n)).ret
        /\ res = Flatten(Nested(in.n))
        /\ (in.n = 0 => res = id_list)

\* Three different non-empty lists are folded: their order shows.
C4_Witness ==
    /\ op = "fold"
    /\ in.n = 3
    /\ A = <<1, 2>> /\ B = <<2>> /\ C = <<1, 1>>
    /\ res = <<1, 2, 2, 1, 1>>

\* C5: id() is the empty list and a two-sided identity of append:
\* append(id(), L) = L and append(L, id()) = L.
C5_MonoidIdentity ==
    /\ Len(id_list) = 0
    /\ op = "identity" => res[1] = A /\ res[2] = A

C5_Witness ==
    /\ op = "identity"
    /\ A = DocList
    /\ in.c1 = "const" /\ in.c2 = "rvalue"
    /\ res = <<DocList, DocList>>

\* C6: append is associative: append(append(A, B), C) and
\* append(A, append(B, C)) are both the elements of A, then B, then C.
C6_MonoidAssociative ==
    op = "assoc" =>
        /\ res[1] = res[2]
        /\ res[1] = A \o B \o C

C6_Witness ==
    /\ op = "assoc"
    /\ A = <<1, 2>> /\ B = <<2>> /\ C = <<1, 1>>
    /\ in.c1 = "const" /\ in.c2 = "const" /\ in.c3 = "const"
    /\ res[1] = <<1, 2, 2, 1, 1>>

\* C7: an overload taking a temporary returns what the all-const overload
\* returns for the same arguments: every append overload the elements of l1
\* then those of l2, the in-place and the moving map the list of the copying
\* map, the rvalue bind the list of the const bind.
C7_MoveEqualsCopy ==
    /\ op = "append" => res = append_cc(A, B) /\ res = A \o B
    /\ op = "map" => res = map_const(fnobj(in.fn), A)
    /\ op = "bind" => res = bind("const", A, fnobj(in.fn))

\* The no-copies map has run on a temporary.
C7_Witness ==
    /\ op = "map"
    /\ in.c1 = "rvalue"
    /\ in.fn = "dbl"
    /\ A = <<1, 2>>
    /\ res = <<2, 4>>

\* C8: concatMap(f, L), and bind(L, f), return f(e1) ++ f(e2) ++ ... ++
\* f(en), the flattening of map(f, L), for f returning lists of any length.
C8_ConcatMapFlattensMap ==
    op \in {"concatMap", "bind"} =>
        /\ res = Flatten(Mapped(in.fn, A))
        /\ res = Flatten(map_const(fnobj(in.fn), A))

\* Sublists of lengths 1, 2 and 2.
C8_Witness ==
    /\ op = "concatMap"
    /\ in.fn = "iota"
    /\ A = DocList
    /\ res = <<4, 8, 9, 5, 6>>

\* C9: map(fn, L) has the length of L and fn(L[i]) as its i-th element;
\* map(identity, L) = L and map(g, map(f, L)) = map(x -> g(f(x)), L).
C9_MapElementwise ==
    /\ op = "map" =>
           /\ Len(res) = Len(A)
           /\ \A i \in 1..Len(A) : res[i] = call1(fnobj(in.fn), A[i])
           /\ (in.fn = "ident" => res = A)
    /\ op = "mapCompose" =>
           /\ res[1] = res[2]
           /\ Len(res[1]) = Len(A)
           /\ \A i \in 1..Len(A) :
                  res[1][i] = call1(fnobj(in.g), call1(fnobj(in.fn), A[i]))

\* inc after dbl, which is not dbl after inc.
C9_Witness ==
    /\ op = "mapCompose"
    /\ in.fn = "dbl" /\ in.g = "inc"
    /\ A = DocList
    /\ res = << <<9, 17, 11>>, <<9, 17, 11>> >>

\* C10: pure(x) is the one-element list [x], and bind(L, pure) = L.
C10_PureRightIdentity ==
    /\ op = "pure" => res = <<in.x>>
    /\ op = "bind" /\ in.fn = "pure" => res = A

C10_Witness ==
    /\ op = "bind"
    /\ in.fn = "pure"
    /\ A = DocList
    /\ res = DocList

\* C11: an operation taking its source list(s) by const reference leaves
\* them as they were: after append(const l1, const l2), map(fn, const l),
\* bind(const l, fn), concatMap(fn, const l), foldl, foldr, foldMap or fold
\* on a const list, each source list holds the same elements in the same
\* order as before the call, whatever the result is.
C11_ConstSourcesUntouched ==
    /\ op \in {"foldl", "foldr", "foldMap", "fold"} => src = <<A, B, C>>
    /\ op \in {"map", "concatMap", "bind"} /\ in.c1 = "const" =>
           src = <<A, B, C>>
    /\ op = "append" =>
           /\ (in.c1 = "const" => src[1] = A)
           /\ (in.c2 = "const" => src[2] = B)
           /\ src[3] = C
    /\ op \in {"identity", "assoc", "mapCompose"} => src = <<A, B, C>>

\* Both lists were borrowed, and the result is their concatenation.
C11_Witness ==
    /\ op = "append"
    /\ in.c1 = "const" /\ in.c2 = "const"
    /\ A = DocList /\ B = <<1, 2>>
    /\ res = <<4, 8, 5, 1, 2>>
    /\ src = <<DocList, <<1, 2>>, C>>

====
